---- MODULE Spec2Model ----
(***************************************************************************)
(* A model of the bencode decoder of C-Bencoder (src/src/bencode.c,        *)
(* src/src/structs.c).  Bytes are the integers 0..255; a C buffer is the   *)
(* sequence of the bytes of its allocation; a C index k is position k+1 of *)
(* the sequence.  The process memory holding an input is the input's       *)
(* bytes, its NUL terminator, and Slack readable bytes of unknown content  *)
(* after it; a read outside that region is a segmentation fault.           *)
(***************************************************************************)
EXTENDS Integers, Sequences, FiniteSets, TLC

VARIABLES buf, pieces, call, res

vars == <<buf, pieces, call, res>>

(***************************************************************************)
(* Bounds of the model.                                                    *)
(***************************************************************************)
\* bytes of readable memory after the input's NUL terminator
Slack == 3
\* longest text between 'i' and what follows it, in the integer host
MaxIntLen == 4
\* longest payload drawn byte by byte for the string host
MaxPayload == 2
\* longest document of the container host, in tokens
MaxTokens == 6
\* largest value an uninitialised length field is drawn from
MaxGarbage == 5
\* nested container decoders the process stack has room for
MaxStack == 8

(***************************************************************************)
(* Characters.                                                             *)
(***************************************************************************)
Ord ==
    ("0" :> 48) @@ ("1" :> 49) @@ ("2" :> 50) @@ ("3" :> 51) @@ ("4" :> 52) @@
    ("5" :> 53) @@ ("6" :> 54) @@ ("7" :> 55) @@ ("8" :> 56) @@ ("9" :> 57) @@
    (":" :> 58) @@ ("-" :> 45) @@ ("+" :> 43) @@ (" " :> 32) @@
    ("a" :> 97) @@ ("c" :> 99) @@ ("d" :> 100) @@ ("e" :> 101) @@
    ("f" :> 102) @@ ("i" :> 105) @@ ("l" :> 108) @@ ("o" :> 111) @@
    ("p" :> 112) @@ ("s" :> 115) @@ ("x" :> 120)

\* the bytes of a text given as a sequence of one-character strings
Bytes(s) == [k \in 1..Len(s) |-> Ord[s[k]]]

Byte == 0..255

Max(a, b) == IF a >= b THEN a ELSE b
Min(a, b) == IF a <= b THEN a ELSE b

(***************************************************************************)
(* The C library, as the decoder uses it.                                  *)
(***************************************************************************)
\* whether C index k of buffer m may be read
InMem(m, k) == k >= 0 /\ k < Len(m)

\* m[k]
At(m, k) == m[k + 1]

\* the least j >= 0 with m[base + j] = ch, or -1 when the scan leaves m
RECURSIVE ScanFor(_, _, _, _)
ScanFor(m, base, j, ch) ==
    IF ~InMem(m, base + j) THEN -1
    ELSE IF At(m, base + j) = ch THEN j
    ELSE ScanFor(m, base, j + 1, ch)

\* strlen(m + base); -1 when no NUL is found inside m
strlen(m, base) == ScanFor(m, base, 0, 0)

\* the bytes strncpy copies before it pads, z being strlen of the source
\* (-1 when the source has no NUL inside m)
CopyStop(m, base, z) == IF z < 0 THEN Len(m) - base ELSE z

strncpyTo(m, base, n, stop) ==
    [k \in 1..n |-> IF k - 1 < stop THEN At(m, base + k - 1) ELSE 0]

\* the n bytes strncpy(dst, m + base, n) writes: the source up to its NUL,
\* then NUL padding.  The source is read up to its NUL and no further.
strncpy(m, base, n) ==
    strncpyTo(m, base, n, CopyStop(m, base, strlen(m, base)))

strncpyHiTo(base, n, z) ==
    IF n = 0 THEN base - 1
    ELSE IF z >= 0 /\ z <= n - 1 THEN base + z
    ELSE base + n - 1

\* the highest C index strncpy(dst, m + base, n) reads (base - 1 when n = 0)
strncpyHi(m, base, n) == strncpyHiTo(base, n, strlen(m, base))

\* the n bytes memcpy(dst, m + base, n) writes; every one of them is read
memcpy(m, base, n) == [k \in 1..n |-> At(m, base + k - 1)]

\* a C string: the bytes of a buffer before its first NUL
CStrTo(b, z) == IF z < 0 THEN b ELSE SubSeq(b, 1, z)

CStr(b) == CStrTo(b, strlen(b, 0))

isdigit(b) == b >= Ord["0"] /\ b <= Ord["9"]
isspace(b) == b = Ord[" "] \/ (b >= 9 /\ b <= 13)

\* the first C index >= k of m that holds no digit (Len(m) when none is left)
RECURSIVE DigitsEnd(_, _)
DigitsEnd(m, k) ==
    IF InMem(m, k) /\ isdigit(At(m, k)) THEN DigitsEnd(m, k + 1) ELSE k

RECURSIVE SpaceEnd(_, _)
SpaceEnd(m, k) ==
    IF InMem(m, k) /\ isspace(At(m, k)) THEN SpaceEnd(m, k + 1) ELSE k

\* the value of the digits m[from .. to-1]
RECURSIVE DigitsVal(_, _, _, _)
DigitsVal(m, from, to, acc) ==
    IF from >= to THEN acc
    ELSE DigitsVal(m, from + 1, to, 10 * acc + (At(m, from) - Ord["0"]))

\* atoi(m + base): white space, an optional sign, digits.  val is the result,
\* hi the C index of the byte that ended the scan (the last byte read).
IsSign(m, s) == InMem(m, s) /\ (At(m, s) = Ord["-"] \/ At(m, s) = Ord["+"])

IsMinus(m, s) == InMem(m, s) /\ At(m, s) = Ord["-"]

Negate(minus, v) == IF minus THEN 0 - v ELSE v

\* s the index of the sign or first digit, d of the first digit, e of the end
atoiDigits(m, s, d, e) ==
    [val |-> Negate(IsMinus(m, s), DigitsVal(m, d, e, 0)), hi |-> e]

atoiSigned(m, s, d) == atoiDigits(m, s, d, DigitsEnd(m, d))

atoiFrom(m, s) == atoiSigned(m, s, IF IsSign(m, s) THEN s + 1 ELSE s)

atoi(m, base) == atoiFrom(m, SpaceEnd(m, base))

(***************************************************************************)
(* The outcome of a call: it returned (st = "ok", obj the value returned), *)
(* it ended the process through exit(code) (st = "exit"), or it crashed on *)
(* a read or write outside its memory (st = "segv").  pieces is the global *)
(* flag after the call, hi the highest C index of the input memory the     *)
(* call read, nalloc the number of malloc calls made, ubk whether the      *)
(* length of a B_HEX key was read through int_str.                         *)
(***************************************************************************)
NoObj == [type |-> "none"]

Out(st, code, obj, p, hi, na, ubk) ==
    [st |-> st, code |-> code, obj |-> obj, pieces |-> p, hi |-> hi,
     nalloc |-> na, ubk |-> ubk]

\* the context a call starts in
Ctx(p) == [pieces |-> p, hi |-> -1, nalloc |-> 0, ubk |-> FALSE]

\* the context a call that returned leaves
CtxOf(r) == [pieces |-> r.pieces, hi |-> r.hi, nalloc |-> r.nalloc,
             ubk |-> r.ubk]

\* the context after k more calls of malloc
Alloc(c, k) == [c EXCEPT !.nalloc = c.nalloc + k]

\* the context after m[k] has been read
Seen(c, k) == [c EXCEPT !.hi = Max(c.hi, k)]

\* the context after a read has left the memory m
Past(c, m) == Seen(c, Len(m) - 1)

\* the process ends, by exit(code) or by a fault
Fail(st, code, c) == Out(st, code, NoObj, c.pieces, c.hi, c.nalloc, c.ubk)

\* the call returns obj, the flag being p
Return(obj, p, c) == Out("ok", 0, obj, p, c.hi, c.nalloc, c.ubk)

(***************************************************************************)
(* type_to_decode                                                          *)
(***************************************************************************)
type_to_decode_skipDigits(start) ==
    IF start = Ord["i"] THEN "B_INT"
    ELSE IF start >= Ord["1"] /\ start <= Ord["9"] THEN "B_STR"
    ELSE IF start = Ord["l"] THEN "B_LIS"
    ELSE IF start = Ord["d"] THEN "B_DICT"
    ELSE "B_NULL"

type_to_decode(start) ==
    IF start = Ord["i"] THEN "B_INT"
    ELSE IF start >= Ord["0"] /\ start <= Ord["9"] THEN "B_STR"
    ELSE IF start = Ord["l"] THEN "B_LIS"
    ELSE IF start = Ord["d"] THEN "B_DICT"
    ELSE "B_NULL"

(***************************************************************************)
(* get_bencoded_int: the copy of m[base .. base+i], i the first index with *)
(* m[base+i] = 'e', NUL-terminated.  The scan does not stop at a NUL.      *)
(***************************************************************************)
\* i the index the scan stopped at, -1 when it left m
IntSpan(m, base, i) ==
    IF i < 0
    THEN [st |-> "segv", bint |-> <<>>, hi |-> Len(m) - 1]
    ELSE [st |-> "ok",
          bint |-> strncpy(m, base, i + 1) \o <<0>>,
          hi |-> base + i]

get_bencoded_int(m, base) == IntSpan(m, base, ScanFor(m, base, 0, Ord["e"]))

(***************************************************************************)
(* test_decode_integer, on the buffer get_bencoded_int returned.           *)
(***************************************************************************)
\* the leading-zero test of test_decode_integer
LeadingZero_any(bint) == At(bint, 1) = Ord["0"]

LeadingZero_never(bint) == FALSE

LeadingZero(bint) == At(bint, 1) = Ord["0"] /\ At(bint, 2) # Ord["e"]

\* the Integer value built (lines 203-222)
IntObj_keepTerminator(bint, lenght, num_len) ==
    [type |-> "B_INT",
     encoded_element |-> bint,
     decoded_element |-> strncpy(bint, 1, num_len + 1) \o <<0>>,
     lenght |-> lenght]

IntObj(bint, lenght, num_len) ==
    [type |-> "B_INT",
     encoded_element |-> bint,
     decoded_element |-> strncpy(bint, 1, num_len) \o <<0>>,
     lenght |-> lenght]

\* lenght is strlen(bencoded_int), num_len the length of the text
IntBuilt(bint, c, lenght, num_len) ==
    IF LeadingZero(bint) THEN Fail("exit", 1, Alloc(c, 1))
    \* strncpy(result, bencoded_int + 1, (size_t)-1) into malloc(0)
    ELSE IF num_len < 0 THEN Fail("segv", 0, Alloc(c, 2))
    ELSE Return(IntObj(bint, lenght, num_len), c.pieces, Alloc(c, 4))

IntMeasured(bint, c, lenght) == IntBuilt(bint, c, lenght, lenght - 2)

test_decode_integer(bint, c) == IntMeasured(bint, c, strlen(bint, 0))

\* test_decode_integer on what get_bencoded_int returned (g)
IntCopied(g, c) ==
    IF g.st # "ok" THEN Fail("segv", 0, Seen(c, g.hi))
    ELSE test_decode_integer(g.bint, Alloc(Seen(c, g.hi), 1))

\* get_bencoded_int(&m[base]) followed by test_decode_integer, as every
\* caller in bencode.c pairs them
DecodeInt(m, base, c) == IntCopied(get_bencoded_int(m, base), c)

(***************************************************************************)
(* test_decode_string(&m[base], p_flag)                                    *)
(***************************************************************************)
\* whether strncpy(dst, m + base, n) reads past the end of m
strncpyFaults(m, base, n) ==
    n > 0 /\ strlen(m, base) < 0 /\ n > Len(m) - base

PIECES == Bytes(<<"p", "i", "e", "c", "e", "s">>)

\* the flag after a text string has been decoded (lines 413-416)
FlagAfterText_keep(result, p) == p

FlagAfterText(result, p) == IF CStr(result) = PIECES THEN 1 ELSE p

\* the flag after a binary string has been decoded (line 395)
FlagAfterHex_keep(p) == p

FlagAfterHex(p) == 0

\* the number of bytes the binary branch copies and records (lines 379-394)
HexLen_payload(n, start_idx) == n

HexLen(n, start_idx) == n + start_idx

\* the consumed length a text string records (line 423)
StrLenght_payload(n, start_idx) == n

StrLenght(n, start_idx) == n + start_idx

HexObj(m, from, len) ==
    [type |-> "B_HEX", decoded_pieces |-> memcpy(m, from, len), lenght |-> len]

StrObj_encodedAsText(m, base, n, start_idx) ==
    [type |-> "B_STR",
     decoded_element |-> strncpy(m, base, n) \o <<0>>,
     encoded_element |-> strncpy(m, base, n + start_idx) \o <<0>>,
     lenght |-> StrLenght(n, start_idx)]

StrObj(m, base, n, start_idx) ==
    [type |-> "B_STR",
     decoded_element |-> strncpy(m, base + start_idx, n) \o <<0>>,
     encoded_element |-> strncpy(m, base, n + start_idx) \o <<0>>,
     lenght |-> StrLenght(n, start_idx)]

\* the text branch returns (lines 413-432)
StrReturn(s, c) ==
    Return(s, FlagAfterText(s.decoded_element, c.pieces), Alloc(c, 5))

\* the text branch (lines 407-411)
StrText(m, base, c, n, start_idx) ==
    IF strncpyFaults(m, base + start_idx, n)
    THEN Fail("segv", 0, Alloc(Past(c, m), 2))
    ELSE StrReturn(StrObj(m, base, n, start_idx),
                   Seen(c, strncpyHi(m, base + start_idx, n)))

\* the binary branch (lines 375-405): hlen bytes are copied from start_idx
StrBinary(m, base, c, start_idx, hlen) ==
    IF ~InMem(m, base + start_idx + hlen - 1)
    THEN Fail("segv", 0, Alloc(Past(c, m), 3))
    ELSE Return(HexObj(m, base + start_idx, hlen), FlagAfterHex(c.pieces),
                Alloc(Seen(c, base + start_idx + hlen - 1), 6))

\* the copy of the encoded form (lines 371-372), then either branch
StrCopied(m, base, p_flag, c, n, start_idx) ==
    IF strncpyFaults(m, base, n + start_idx)
    THEN Fail("segv", 0, Alloc(Past(c, m), 2))
    ELSE IF p_flag # 0
    THEN StrBinary(m, base, Seen(c, strncpyHi(m, base, n + start_idx)),
                   start_idx, HexLen(n, start_idx))
    ELSE StrText(m, base, Seen(c, strncpyHi(m, base, n + start_idx)),
                 n, start_idx)

\* the scan for ':' (lines 364-368) stopped at j, -1 when it left m
StrScanned(m, base, p_flag, c, n, j) ==
    IF j < 0 THEN Fail("segv", 0, Alloc(Past(c, m), 1))
    ELSE StrCopied(m, base, p_flag, Seen(c, base + j), n, j + 1)

\* atoi (line 354) returned a
StrParsed(m, base, p_flag, c, a) ==
    IF ~InMem(m, a.hi) THEN Fail("segv", 0, Past(c, m))
    ELSE IF a.val < 0 THEN Fail("exit", -1, Seen(c, a.hi))
    ELSE StrScanned(m, base, p_flag, Seen(c, a.hi), a.val,
                    ScanFor(m, base, 0, Ord[":"]))

test_decode_string(m, base, p_flag, c) ==
    StrParsed(m, base, p_flag, c, atoi(m, base))

(***************************************************************************)
(* The containers.  o is what the run's undefined reads yield: o.g the     *)
(* value found in the uninitialised word read as the length of a B_HEX     *)
(* key, o.survive whether printing through the B_HEX key's wild pointer    *)
(* returns instead of faulting, o.stack the nested calls of the container  *)
(* decoders the stack still has room for.                                  *)
(***************************************************************************)
\* list_add: the element goes after every earlier one
list_add_front(lista, elem) == <<elem>> \o lista

list_add(lista, elem) == Append(lista, elem)

\* dict_add: the pair goes after every earlier one
dict_add(dict, key, val) == Append(dict, [key |-> key, value |-> val])

RECURSIVE print_list(_, _), print_dict(_, _)

\* one print after another: the second is not reached when the first ends
\* the process
PrintThen(r, rest) == IF r # "ok" THEN r ELSE rest

\* a print_list that prints a blob (B_HEX) element as it prints a string
print_list_node_hexPrinted(e, o) ==
    CASE e.type = "B_LIS"  -> print_list(e.list, o)
      [] e.type = "B_DICT" -> print_dict(e.dict, o)
      [] e.type = "B_NULL" -> "exit"
      [] OTHER             -> "ok"

\* the switch of print_list on an element (structs.c lines 449-470)
print_list_node(e, o) ==
    CASE e.type = "B_LIS"  -> print_list(e.list, o)
      [] e.type = "B_DICT" -> print_dict(e.dict, o)
      [] e.type = "B_HEX"  -> "exit"
      [] e.type = "B_NULL" -> "exit"
      [] OTHER             -> "ok"

\* print_dict on a pair (structs.c lines 512-537): the key is printed as a
\* b_element's text whatever it is
print_dict_node(n, o) ==
    IF n.key.type = "B_HEX" /\ ~o.survive THEN "segv"
    ELSE CASE n.value.type = "B_LIS"  -> print_list(n.value.list, o)
           [] n.value.type = "B_DICT" -> print_dict(n.value.dict, o)
           [] n.value.type = "B_NULL" -> "exit"
           [] OTHER                   -> "ok"

\* print_list and print_dict: "ok" when the traversal returns, "exit" when
\* it ends the process, "segv" when it faults
print_list(lista, o) ==
    IF lista = <<>> THEN "ok"
    ELSE PrintThen(print_list_node(Head(lista), o),
                   print_list(Tail(lista), o))

print_dict(dict, o) ==
    IF dict = <<>> THEN "ok"
    ELSE PrintThen(print_dict_node(Head(dict), o),
                   print_dict(Tail(dict), o))

\* the consumed length a list records (line 663)
ListLenght_noTerminator(idx) == idx

ListLenght(idx) == idx + 1

ListObj(m, base, idx, lista) ==
    [type |-> "B_LIS", list |-> lista,
     enocded_list |-> strncpy(m, base, idx + 1),
     lenght |-> ListLenght(idx)]

DictObj_untagged(m, base, idx, dict) ==
    [type |-> "B_NULL", dict |-> dict,
     encoded_dict |-> memcpy(m, base, idx + 1),
     lenght |-> idx + 1]

DictObj(m, base, idx, dict) ==
    [type |-> "B_DICT", dict |-> dict,
     encoded_dict |-> memcpy(m, base, idx + 1),
     lenght |-> idx + 1]

\* the length the dictionary loop adds for a key (line 793): the key is read
\* as a b_element whatever it is
KeyLenght(key, o) == IF key.type = "B_HEX" THEN o.g ELSE key.lenght

RECURSIVE test_decode_list(_, _, _, _), test_decode_dict(_, _, _, _)
RECURSIVE ListLoop(_, _, _, _, _, _), DictLoop(_, _, _, _, _, _)
RECURSIVE DecodeValue(_, _, _, _)

\* a nested call has one frame less
Deeper(o) == [o EXCEPT !.stack = o.stack - 1]

\* the switch both loops make on the lead byte of a value (lines 613-659,
\* 798-844): the decoder's outcome, or exit(-1) on B_NULL
DecodeAs(t, m, at, c, o) ==
    CASE t = "B_INT"  -> DecodeInt(m, at, c)
      [] t = "B_STR"  -> test_decode_string(m, at, c.pieces, c)
      [] t = "B_LIS"  -> test_decode_list(m, at, c, Deeper(o))
      [] t = "B_DICT" -> test_decode_dict(m, at, c, Deeper(o))
      [] OTHER        -> Fail("exit", -1, c)

DecodeValue(m, at, c, o) == DecodeAs(type_to_decode(At(m, at)), m, at, c, o)

\* the list loop at its terminator (lines 663-685): p is what print_list
\* did
ListEnd(m, base, idx, lista, c, p) ==
    IF p = "ok"
    THEN Out("ok", 0, ListObj(m, base, idx, lista),
             c.pieces, c.hi, c.nalloc + 3, c.ubk)
    ELSE Fail(p, -1, Alloc(c, 3))

\* the list loop after the element at idx has been decoded, r its outcome
\* (lines 613-660)
ListStep(m, base, idx, lista, o, r) ==
    IF r.st # "ok" THEN r
    ELSE ListLoop(m, base, idx + r.obj.lenght, list_add(lista, r.obj),
                  Alloc(CtxOf(r), 1), o)

\* while (bencoded_list[idx] != 'e') (line 611)
ListLoop(m, base, idx, lista, c, o) ==
    IF ~InMem(m, base + idx) THEN Fail("segv", 0, c)
    ELSE IF At(m, base + idx) = Ord["e"]
    THEN ListEnd(m, base, idx, lista, Seen(c, base + idx),
                 print_list(lista, o))
    ELSE ListStep(m, base, idx, lista, o,
                  DecodeValue(m, base + idx, Seen(c, base + idx), o))

test_decode_list(m, base, c, o) ==
    IF o.stack = 0 THEN Fail("segv", 0, c)
    ELSE ListLoop(m, base, 1, <<>>, Alloc(c, 1), o)

\* the dictionary loop at its terminator (lines 848-868): p is what
\* print_dict did
DictEnd(m, base, idx, dict, c, p) ==
    IF p = "ok"
    THEN Out("ok", 0, DictObj(m, base, idx, dict),
             c.pieces, c.hi, c.nalloc + 3, c.ubk)
    ELSE Fail(p, 0, c)

\* the dictionary loop after the value at vat has been decoded, r its
\* outcome (lines 798-844)
DictStep(m, base, vat, dict, key, o, r) ==
    IF r.st # "ok" THEN r
    ELSE DictLoop(m, base, (vat - base) + r.obj.lenght,
                  dict_add(dict, key, r.obj), Alloc(CtxOf(r), 1), o)

\* the context after a key has been decoded, k its outcome: the length of a
\* B_HEX key is read through int_str
KeyCtx(k) == [CtxOf(k) EXCEPT !.ubk = k.ubk \/ k.obj.type = "B_HEX"]

\* the dictionary loop after the key at idx has been decoded, k its outcome
\* (lines 792-797): the value is looked for at vat
DictValue(m, base, vat, dict, key, c, o) ==
    IF ~InMem(m, vat) THEN Fail("segv", 0, c)
    ELSE DictStep(m, base, vat, dict, key, o,
                  DecodeValue(m, vat, Seen(c, vat), o))

DictKey(m, base, idx, dict, o, k) ==
    IF k.st # "ok" THEN k
    ELSE DictValue(m, base, base + idx + KeyLenght(k.obj, o), dict, k.obj,
                   KeyCtx(k), o)

\* while (bencoded_dict[idx] != 'e') (line 789)
DictLoop(m, base, idx, dict, c, o) ==
    IF ~InMem(m, base + idx) THEN Fail("segv", 0, c)
    ELSE IF At(m, base + idx) = Ord["e"]
    THEN DictEnd(m, base, idx, dict, Seen(c, base + idx),
                 print_dict(dict, o))
    ELSE DictKey(m, base, idx, dict, o,
                 test_decode_string(m, base + idx, c.pieces,
                                    Seen(c, base + idx)))

test_decode_dict(m, base, c, o) ==
    IF o.stack = 0 THEN Fail("segv", 0, c)
    ELSE DictLoop(m, base, 1, <<>>, Alloc(c, 2), o)

(***************************************************************************)
(* Lookup by key (structs.c).  A key is compared through                   *)
(* key->object->int_str->decoded_element whatever the key is: for a B_HEX  *)
(* key that is the blob's length read as a pointer, and w tells whether    *)
(* the text found there equals the searched key.                           *)
(***************************************************************************)
NULL == [type |-> "NULL"]

strcmp(a, b) == IF CStr(a) = CStr(b) THEN 0 ELSE 1

KeyMatches(key, k, w) ==
    IF k.type = "B_HEX" THEN w ELSE strcmp(key, k.decoded_element) = 0

\* print_object(obj, 0): "ok" when it returns
print_object(obj, o) ==
    CASE obj.type \in {"B_INT", "B_STR", "B_HEX"} -> "ok"
      [] obj.type = "B_LIS"  -> print_list(obj.list, o)
      [] obj.type = "B_DICT" -> print_dict(obj.dict, o)
      [] OTHER -> "exit"

\* what a lookup leaves: how it ended, what it printed, what it returned or
\* printed the value of
Looked(st, out, ret) == [st |-> st, out |-> out, ret |-> ret]

NotFound == Looked("ok", "NOT FOUND!", NULL)

\* get_info_dict(dict, key): tmp->value->object->dict of the first pair that
\* matches, the value's record whatever its type
RECURSIVE get_info_dict(_, _, _)
get_info_dict(dict, key, w) ==
    IF dict = <<>> THEN NotFound
    ELSE IF KeyMatches(key, Head(dict).key, w)
    THEN Looked("ok", "", Head(dict).value)
    ELSE get_info_dict(Tail(dict), key, w)

\* find_by_key(dict, key)
RECURSIVE find_by_key(_, _, _, _)
find_by_key(dict, key, w, o) ==
    IF dict = <<>> THEN NotFound
    ELSE IF KeyMatches(key, Head(dict).key, w)
    THEN Looked(print_object(Head(dict).value, o), "FOUND: ",
                Head(dict).value)
    ELSE find_by_key(Tail(dict), key, w, o)

\* what the reads through the B_HEX keys of dict may yield
WildMatch(dict) ==
    IF \E i \in 1..Len(dict) : dict[i].key.type = "B_HEX"
    THEN BOOLEAN ELSE {FALSE}

(***************************************************************************)
(* Destruction (structs.c): the number of calls of free a destruction      *)
(* makes, each on an allocation of its own.                                *)
(***************************************************************************)
RECURSIVE free_obj(_), free_listNodes(_), free_dictNodes(_)

\* free_listNodes: each node's object and the node, then the encoded text
\* and the b_list
free_listNodes(lista) ==
    IF lista = <<>> THEN 2
    ELSE free_obj(Head(lista)) + 1 + free_listNodes(Tail(lista))

\* free_dictNodes: each node's key, value and the node, then the encoded
\* text and the b_dict
free_dictNodes(dict) ==
    IF dict = <<>> THEN 2
    ELSE free_obj(Head(dict).key) + free_obj(Head(dict).value) + 1
             + free_dictNodes(Tail(dict))

free_obj(ptr) ==
    CASE ptr.type \in {"B_INT", "B_STR"} -> 5
      [] ptr.type = "B_HEX"  -> 4
      [] ptr.type = "B_LIS"  -> free_listNodes(ptr.list) + 2
      [] ptr.type = "B_DICT" -> free_dictNodes(ptr.dict) + 2
      [] OTHER -> 0

(***************************************************************************)
(* generate_peer_id (bencode.c).  SHA1 is OpenSSL's: what the model keeps  *)
(* of it is that it yields SHA_DIGEST_LENGTH bytes which depend on the n   *)
(* bytes hashed, on their order and on n, and on nothing else.             *)
(***************************************************************************)
SHA_DIGEST_LENGTH == 20

RECURSIVE Mix(_, _, _)
Mix(data, i, j) ==
    IF i > Len(data) THEN 0
    ELSE data[i] * (i + j) + Mix(data, i + 1, j)

SHA1(data) ==
    [j \in 1..SHA_DIGEST_LENGTH |->
        (31 * Len(data) + 7 * j + Mix(data, 1, j)) % 256]

\* "-GS0001-"
PeerPrefix == <<45, 71, 83, 48, 48, 48, 49, 45>>

\* the bytes of the digest that go into the id (line 948)
PeerDigestPart_last(hash) == SubSeq(hash, 9, 20)

PeerDigestPart(hash) == SubSeq(hash, 1, 12)

\* peer_id after memcpy(peer_id, prefix, 8) and memcpy(peer_id + 8, part, 12)
PeerWritten(peer_id, part) ==
    [k \in 1..Len(peer_id) |->
        IF k <= 8 THEN PeerPrefix[k]
        ELSE IF k <= 8 + Len(part) THEN part[k - 8]
        ELSE peer_id[k]]

\* generate_peer_id(peer_key, peer_id), m the memory peer_key points into
generate_peer_id(m, peer_id) ==
    PeerWritten(peer_id,
                PeerDigestPart(SHA1(SubSeq(m, 1, strlen(m, 0)))))

\* The calls of free a destruction makes, in the order it makes them.  An
\* allocation is named by the place of its value in the tree (at: the
\* indices from the root down, element i of a list being i, key and value
\* of pair i of a dictionary 2i-1 and 2i), by what it is (part), and for a
\* node by its number (n).
Freed(at, part, n) == [at |-> at, part |-> part, n |-> n]

\* B_INT and B_STR (lines 104-119), B_HEX (lines 122-127)
ElementFrees(at) ==
    <<Freed(at, "decoded_element", 0), Freed(at, "encoded_element", 0),
      Freed(at, "int_str", 0), Freed(at, "object", 0), Freed(at, "ptr", 0)>>

PiecesFrees(at) ==
    <<Freed(at, "decoded_pieces", 0), Freed(at, "pieces", 0),
      Freed(at, "object", 0), Freed(at, "ptr", 0)>>

\* B_LIS and B_DICT (lines 130-141): the nodes and the record, then the
\* wrappers
ContainerFrees_wrappersFirst(inner, at) ==
    <<Freed(at, "object", 0), Freed(at, "ptr", 0)>> \o inner

ContainerFrees(inner, at) ==
    inner \o <<Freed(at, "object", 0), Freed(at, "ptr", 0)>>

\* B_NULL (lines 144-146): a line on stderr, no free
NullFrees_ptr(at) == <<Freed(at, "ptr", 0)>>

NullFrees(at) == <<>>

\* the end of free_listNodes and free_dictNodes (lines 186-187, 231-232)
RecordFrees(at) == <<Freed(at, "encoded", 0), Freed(at, "record", 0)>>

RECURSIVE free_obj_calls(_, _), free_listNodes_calls(_, _, _)
RECURSIVE free_dictNodes_calls(_, _, _)

\* free_listNodes from node i on
free_listNodes_calls(lista, at, i) ==
    IF i > Len(lista) THEN RecordFrees(at)
    ELSE free_obj_calls(lista[i], Append(at, i))
             \o <<Freed(at, "node", i)>>
             \o free_listNodes_calls(lista, at, i + 1)

\* free_dictNodes from node i on
free_dictNodes_calls(dict, at, i) ==
    IF i > Len(dict) THEN RecordFrees(at)
    ELSE free_obj_calls(dict[i].key, Append(at, 2 * i - 1))
             \o free_obj_calls(dict[i].value, Append(at, 2 * i))
             \o <<Freed(at, "node", i)>>
             \o free_dictNodes_calls(dict, at, i + 1)

free_obj_calls(ptr, at) ==
    CASE ptr.type = "B_NULL" -> NullFrees(at)
      [] ptr.type \in {"B_INT", "B_STR"} -> ElementFrees(at)
      [] ptr.type = "B_HEX"  -> PiecesFrees(at)
      [] ptr.type = "B_LIS"  ->
             ContainerFrees(free_listNodes_calls(ptr.list, at, 1), at)
      [] ptr.type = "B_DICT" ->
             ContainerFrees(free_dictNodes_calls(ptr.dict, at, 1), at)
      [] OTHER -> <<>>

\* what free_obj(ptr) leaves: it returns (st), freed and calls are the
\* calls of free it made, report whether it wrote its error line, left the
\* value when none of it was freed
Destroyed(ptr, calls) ==
    [st |-> "ok", freed |-> free_obj(ptr), calls |-> calls,
     report |-> ptr.type = "B_NULL",
     left |-> IF calls = <<>> THEN ptr ELSE NoObj]

(***************************************************************************)
(* The memory of a run and what its undefined reads yield.                 *)
(***************************************************************************)
\* the content the bytes after the terminator may have
WildBytes == {0, Ord["e"], Ord[":"]}

\* the input, its NUL terminator, and the bytes after it
Mem(b, w) == b \o <<0>> \o [k \in 1..Slack |-> w]

Garbage == (-1)..MaxGarbage

Oracle0 == [wild |-> 0, g |-> 0, survive |-> FALSE, stack |-> MaxStack]

\* whether a run on input b read a byte after b's terminator
ReadSlack(r, b) == r.hi > Len(b)

\* the choices that differ from o in the bytes after the terminator (when
\* slackRead) and in what the reads through a B_HEX key yield (when keyRead)
Branch(o, slackRead, keyRead) ==
    {[wild |-> w, g |-> g, survive |-> s, stack |-> o.stack] :
        w \in IF slackRead THEN WildBytes ELSE {o.wild},
        g \in IF keyRead THEN Garbage ELSE {o.g},
        s \in IF keyRead THEN BOOLEAN ELSE {o.survive}}

\* the decoder call op makes on input b, the flag being p: arg is the index
\* an integer is decoded at, or the p_flag a string is decoded with
RunCall(op, arg, b, p, o) ==
    CASE op = "test_decode_integer" ->
             DecodeInt(Mem(b, o.wild), arg, Ctx(p))
      [] op = "test_decode_string" ->
             test_decode_string(Mem(b, o.wild), 0, arg, Ctx(p))
      [] op = "test_decode_list" ->
             test_decode_list(Mem(b, o.wild), 0, Ctx(p), o)
      [] op = "test_decode_dict" ->
             test_decode_dict(Mem(b, o.wild), 0, Ctx(p), o)

\* the runs of a call, each the choice o it is made under and its outcome
\* r: a run that makes no undefined read is the only one; one that makes
\* some is made under every value those reads may yield, and so are the
\* undefined reads it then goes on to make
RunsFor(op, arg, b, p) ==
    LET r0 == RunCall(op, arg, b, p, Oracle0)
        s0 == ReadSlack(r0, b)
        k0 == r0.ubk
    IN  IF ~s0 /\ ~k0 THEN {[o |-> Oracle0, r |-> r0]}
        ELSE UNION {LET r  == RunCall(op, arg, b, p, o)
                        s1 == ReadSlack(r, b) /\ ~s0
                        k1 == r.ubk /\ ~k0
                    IN  IF ~s1 /\ ~k1 THEN {[o |-> o, r |-> r]}
                        ELSE {[o |-> o2, r |-> RunCall(op, arg, b, p, o2)] :
                                  o2 \in Branch(o, s1, k1)} :
                    o \in Branch(Oracle0, s0, k0)}

(***************************************************************************)
(* The inputs of the hosts.                                                *)
(***************************************************************************)
SeqsUpTo(S, lo, n) == UNION {[1..k -> S] : k \in lo..n}

\* what stands before the integer in its buffer, and after its digits
IntPrefixes == {<<>>, Bytes(<<"l">>), Bytes(<<"l", "i", "4", "e">>)}

IntBodyBytes == {Ord[ch] : ch \in {"-", "0", "4", "2"}}

IntPosts == {<<>>, Bytes(<<"e">>), Bytes(<<"e", "4", "e">>)}

IntInputs ==
    {pre \o <<Ord["i"]>> \o body \o post :
        pre \in IntPrefixes, body \in SeqsUpTo(IntBodyBytes, 0, MaxIntLen),
        post \in IntPosts}

\* the decimal text of n >= 0
RECURSIVE Itoa(_)
Itoa(n) == IF n < 10 THEN <<Ord["0"] + n>>
           ELSE Itoa(n \div 10) \o <<Ord["0"] + (n % 10)>>

\* longest declared length of the string host
MaxDeclared == 11

PayloadBytes == {0, Ord["a"], 255}

Payloads ==
    SeqsUpTo(PayloadBytes, 0, MaxPayload)
        \cup {[k \in 1..n |-> Ord["a"]] : n \in 10..MaxDeclared}
        \cup {PIECES}

LenPrefixes ==
    {Itoa(n) : n \in 0..MaxDeclared}
        \cup {Bytes(<<"-", "1">>), Bytes(<<"0", "2">>), <<>>}

StrSuffixes == {<<>>, Bytes(<<"e">>), Bytes(<<"1", ":", "a">>)}

StrInputs ==
    {p \o sep \o pl \o sf : p \in LenPrefixes, sep \in {<<>>, <<Ord[":"]>>},
                            pl \in Payloads, sf \in StrSuffixes}

\* the tokens documents are made of
DocTokens ==
    [l      |-> Bytes(<<"l">>),
     d      |-> Bytes(<<"d">>),
     e      |-> Bytes(<<"e">>),
     int    |-> Bytes(<<"i", "1", "e">>),
     foo    |-> Bytes(<<"3", ":", "f", "o", "o">>),
     pieces |-> Bytes(<<"6", ":">>) \o PIECES,
     bin    |-> Bytes(<<"2", ":">>) \o <<0, 255>>]

Atoms == {"int", "foo", "pieces", "bin"}

\* ValueSeqs(n): the sequences of values written with n tokens in all, a
\* value being an atom or 'l' or 'd', values, 'e'.  A dictionary's values
\* are its keys and values alike, of any kind and number.
RECURSIVE ValueSeqs(_)
ValueSeqs(n) ==
    IF n = 0 THEN {<<>>}
    ELSE {<<a>> \o s : a \in Atoms, s \in ValueSeqs(n - 1)}
           \cup UNION {{<<o>> \o v \o <<"e">> \o s :
                            o \in {"l", "d"},
                            v \in ValueSeqs(k - 2),
                            s \in ValueSeqs(n - k)} : k \in 2..n}

\* the lists and dictionaries of at most MaxTokens tokens
Containers ==
    UNION {{<<o>> \o v \o <<"e">> : o \in {"l", "d"},
                                    v \in ValueSeqs(n - 2)} :
              n \in 2..MaxTokens}

RECURSIVE Flatten(_)
Flatten(ts) == IF ts = <<>> THEN <<>>
               ELSE DocTokens[Head(ts)] \o Flatten(Tail(ts))

\* the documents: the containers and what is left of them when the input
\* ends early
DocInputs ==
    UNION {{Flatten(SubSeq(ts, 1, k)) : k \in 1..Len(ts)} : ts \in Containers}

\* Dictionaries with a key that is no byte-string: 'd', at most one
\* well-formed pair, a key that is an integer, a list or a dictionary, at
\* most MaxKeyRest more tokens (integers and byte-strings, one of them with
\* a payload that reads as an integer), 'e'.
MaxKeyRest == 3

StrOfInt == Bytes(<<"3", ":", "i", "1", "e">>)

NonStringKeys ==
    {DocTokens.int, DocTokens.l \o DocTokens.e, DocTokens.d \o DocTokens.e}

RECURSIVE KeyRests(_)
KeyRests(n) ==
    IF n = 0 THEN {<<>>}
    ELSE KeyRests(n - 1) \cup
             {t \o r : t \in {DocTokens.int, DocTokens.foo, StrOfInt},
                       r \in KeyRests(n - 1)}

KeyDocs ==
    {DocTokens.d \o pre \o k \o r \o DocTokens.e :
         pre \in {<<>>, DocTokens.foo \o DocTokens.int},
         k \in NonStringKeys,
         r \in KeyRests(MaxKeyRest)}

\* the dictionaries of at most MaxTokens tokens, and the keys looked up in
\* them (NUL-terminated): two that occur, one that does not, the empty text
LookupDocs == {Flatten(ts) : ts \in {c \in Containers : c[1] = "d"}}

LookupKeys ==
    {Bytes(<<"f", "o", "o">>) \o <<0>>, PIECES \o <<0>>,
     Bytes(<<"f", "o">>) \o <<0>>, <<0>>}

\* the lists and dictionaries that are destroyed after their decode
FreeDocs == {Flatten(ts) : ts \in Containers}

\* the seeds of at most MaxSeedLen bytes, a NUL among them, and the output
\* buffers: 20 bytes and PeerGuard more, all of one value
MaxSeedLen == 3

PeerGuard == 2

Seeds == SeqsUpTo({Ord["a"], Ord["p"], 0}, 0, MaxSeedLen)

PeerBuffers ==
    {[k \in 1..(SHA_DIGEST_LENGTH + PeerGuard) |-> f] : f \in {0, 255}}

\* Documents with a blob under the key "pieces": a dictionary, alone or as
\* the element of a list, with at most one pair before the key and a blob
\* of 0..MaxDeclared bytes, all of one value
BlobDocs ==
    LET blobs == {Itoa(n) \o <<Ord[":"]>> \o [k \in 1..n |-> c] :
                      n \in 0..MaxDeclared, c \in PayloadBytes}
        dicts == {DocTokens.d \o pre \o DocTokens.pieces \o blob
                      \o DocTokens.e :
                      pre \in {<<>>, DocTokens.foo \o DocTokens.int},
                      blob \in blobs}
    IN  dicts \cup {DocTokens.l \o d \o DocTokens.e : d \in dicts}

(***************************************************************************)
(* The hosts.  A host loads an input and makes one call on it; after a     *)
(* call that returned it may turn to the next input, the global flag being *)
(* what the call left.  exit and a fault end the process.                  *)
(***************************************************************************)
NoRes == [st |-> "none"]

Init ==
    /\ buf = <<>>
    /\ pieces = 0
    /\ call = [op |-> "start"]
    /\ res = NoRes

Load(b) ==
    /\ buf' = b
    /\ call' = [op |-> "load"]
    /\ res' = NoRes
    /\ UNCHANGED pieces

\* the host is done with the value a call returned and turns to the next
\* input; the global flag stays what the call left
Drop ==
    /\ call.op \notin {"start", "load"}
    /\ res.st = "ok"
    /\ buf' = <<>>
    /\ call' = [op |-> "start"]
    /\ res' = NoRes
    /\ UNCHANGED pieces

LoadInt == call.op = "start" /\ \E b \in IntInputs : Load(b)

LoadStr == call.op = "start" /\ \E b \in StrInputs : Load(b)

LoadDoc == call.op = "start" /\ \E b \in DocInputs : Load(b)

LoadKeyDoc == call.op = "start" /\ \E b \in KeyDocs : Load(b)

\* type_to_decode(b), on any byte
TypeToDecode ==
    /\ call.op = "start"
    /\ \E b \in Byte :
           /\ call' = [op |-> "type_to_decode", start |-> b]
           /\ res' = [st |-> "ok", type |-> type_to_decode(b)]
           /\ UNCHANGED <<buf, pieces>>

\* a call's record: what was called, on which argument (arg: the index
\* decoded at, or p_flag), under which choices (o), and the global flag it
\* started with (p)
Finish(op, arg, o, r) ==
    /\ call' = [op |-> op, arg |-> arg, o |-> o, p |-> pieces]
    /\ res' = r
    /\ pieces' = r.pieces
    /\ UNCHANGED buf

\* the call op(arg) on buf, under each of the choices it may run under
Call(op, arg) ==
    \E run \in RunsFor(op, arg, buf, pieces) :
        Finish(op, arg, run.o, run.r)

\* get_bencoded_int(&buf[at]) and test_decode_integer on its result, at a
\* byte the dispatcher sends to the integer decoder
DecodeInteger ==
    /\ call.op = "load"
    /\ \E at \in 0..(Len(buf) - 1) :
           /\ type_to_decode(At(buf, at)) = "B_INT"
           /\ Call("test_decode_integer", at)

\* test_decode_string(buf, p_flag)
DecodeString ==
    /\ call.op = "load"
    /\ Len(buf) > 0
    /\ \E p_flag \in {0, 1} : Call("test_decode_string", p_flag)

\* test_decode_list(buf, 0), on a buffer the dispatcher sends to it
DecodeList ==
    /\ call.op = "load"
    /\ type_to_decode(At(buf, 0)) = "B_LIS"
    /\ Call("test_decode_list", 0)

\* test_decode_dict(buf, 0), on a buffer the dispatcher sends to it
DecodeDict ==
    /\ call.op = "load"
    /\ type_to_decode(At(buf, 0)) = "B_DICT"
    /\ Call("test_decode_dict", 0)

NextType == TypeToDecode \/ Drop

SpecType == Init /\ [][NextType]_vars

NextInt == LoadInt \/ DecodeInteger \/ Drop

SpecInt == Init /\ [][NextInt]_vars

NextStr == LoadStr \/ DecodeString \/ Drop

SpecStr == Init /\ [][NextStr]_vars

Next == LoadDoc \/ DecodeList \/ DecodeDict \/ Drop

Spec == Init /\ [][Next]_vars

NextKey == LoadKeyDoc \/ DecodeDict \/ Drop

SpecKey == Init /\ [][NextKey]_vars

LoadLookupDoc == call.op = "start" /\ \E b \in LookupDocs : Load(b)

\* a lookup in the dictionary the decode returned
Lookup(op, key, w, r) ==
    /\ call' = [op |-> op, key |-> key, w |-> w, dict |-> res.obj,
                o |-> call.o, p |-> call.p]
    /\ res' = r
    /\ UNCHANGED <<buf, pieces>>

\* get_info_dict(dict, key) on the dictionary returned
GetInfoDict ==
    /\ call.op = "test_decode_dict"
    /\ res.st = "ok"
    /\ \E key \in LookupKeys : \E w \in WildMatch(res.obj.dict) :
           Lookup("get_info_dict", key, w,
                  get_info_dict(res.obj.dict, key, w))

\* find_by_key(dict, key) on the dictionary returned
FindByKey ==
    /\ call.op = "test_decode_dict"
    /\ res.st = "ok"
    /\ \E key \in LookupKeys : \E w \in WildMatch(res.obj.dict) :
           Lookup("find_by_key", key, w,
                  find_by_key(res.obj.dict, key, w, call.o))

NextLookup == LoadLookupDoc \/ DecodeDict \/ GetInfoDict \/ FindByKey \/ Drop

SpecLookup == Init /\ [][NextLookup]_vars

TopDecode == call.op \in {"test_decode_list", "test_decode_dict"}

LoadFreeDoc == call.op = "start" /\ \E b \in FreeDocs : Load(b)

\* free_obj on the root the decode returned: root and nalloc are the tree
\* and the number of allocations the decode made
FreeObj ==
    /\ TopDecode
    /\ res.st = "ok"
    /\ call' = [op |-> "free_obj", root |-> res.obj, nalloc |-> res.nalloc,
                o |-> call.o, p |-> call.p]
    /\ res' = Destroyed(res.obj, free_obj_calls(res.obj, <<>>))
    /\ UNCHANGED <<buf, pieces>>

\* free_obj on a value the host tagged B_NULL: object is what its pointer
\* holds, nothing or a record
InvalidValues ==
    {[type |-> "B_NULL", object |-> ob] :
         ob \in {NULL, [decoded_element |-> <<0>>, lenght |-> 0]}}

FreeInvalid ==
    /\ call.op = "start"
    /\ \E v \in InvalidValues :
           /\ call' = [op |-> "free_obj", root |-> v, nalloc |-> 0,
                       o |-> Oracle0, p |-> pieces]
           /\ res' = Destroyed(v, free_obj_calls(v, <<>>))
    /\ UNCHANGED <<buf, pieces>>

NextFree ==
    LoadFreeDoc \/ DecodeList \/ DecodeDict \/ FreeObj \/ FreeInvalid \/ Drop

SpecFree == Init /\ [][NextFree]_vars

LoadSeed == call.op = "start" /\ \E b \in Seeds : Load(b)

\* a call of generate_peer_id on the seed in buf: before is the output
\* buffer as the call found it, again whether it is the second call
PeerCall(before, again) ==
    /\ call' = [op |-> "generate_peer_id", before |-> before,
                again |-> again]
    /\ res' = [st |-> "ok", out |-> generate_peer_id(buf \o <<0>>, before)]
    /\ UNCHANGED <<buf, pieces>>

\* generate_peer_id(seed, peer_id) on a fresh output buffer
GeneratePeerId ==
    /\ call.op = "load"
    /\ \E peer_id \in PeerBuffers : PeerCall(peer_id, FALSE)

\* the same call once more, on the buffer the first call wrote
GeneratePeerIdAgain ==
    /\ call.op = "generate_peer_id"
    /\ ~call.again
    /\ PeerCall(res.out, TRUE)

NextPeer == LoadSeed \/ GeneratePeerId \/ GeneratePeerIdAgain \/ Drop

SpecPeer == Init /\ [][NextPeer]_vars

LoadBlobDoc == call.op = "start" /\ \E b \in BlobDocs : Load(b)

NextBlob == LoadBlobDoc \/ DecodeList \/ DecodeDict \/ Drop

SpecBlob == Init /\ [][NextBlob]_vars

(***************************************************************************)
(* Properties.                                                             *)
(***************************************************************************)
Digit == {Ord[ch] : ch \in {"0", "1", "2", "3", "4", "5", "6", "7", "8", "9"}}

IntCall == call.op = "test_decode_integer"
StrCall == call.op = "test_decode_string"
ListCall == call.op = "test_decode_list"
DictCall == call.op = "test_decode_dict"

\* C1: type_to_decode(b) is B_INT iff b is 'i', B_STR iff b is an ASCII
\* digit, B_LIS iff b is 'l', B_DICT iff b is 'd', and B_NULL for every
\* other byte; it is never B_HEX.
C1_Dispatch ==
    call.op = "type_to_decode" =>
        LET b == call.start
            t == res.type
        IN  /\ (t = "B_INT") <=> (b = Ord["i"])
            /\ (t = "B_STR") <=> (b \in Digit)
            /\ (t = "B_LIS") <=> (b = Ord["l"])
            /\ (t = "B_DICT") <=> (b = Ord["d"])
            /\ (t = "B_NULL") <=>
                   (b \notin Digit \cup {Ord["i"], Ord["l"], Ord["d"]})
            /\ t # "B_HEX"

C1_Witness ==
    /\ call.op = "type_to_decode"
    /\ call.start = Ord["0"]
    /\ res.type = "B_STR"

(***************************************************************************)
(* The integer decoder.                                                    *)
(***************************************************************************)
\* the C index of the first 'e' of b after index at, Len(b) when none
FirstEIn(b, at) ==
    IF \E k \in (at + 1)..(Len(b) - 1) : At(b, k) = Ord["e"]
    THEN CHOOSE k \in (at + 1)..(Len(b) - 1) :
             /\ At(b, k) = Ord["e"]
             /\ \A j \in (at + 1)..(k - 1) : At(b, j) # Ord["e"]
    ELSE Len(b)

FirstE(at) == FirstEIn(buf, at)

\* the text between the 'i' at index at and its terminator
IntText(at) == SubSeq(buf, at + 2, FirstE(at))

\* an optional minus sign, then "0" or digits that do not start with '0'
\* ("-0" is no integer)
ValidIntText(t) ==
    LET neg == t # <<>> /\ t[1] = Ord["-"]
        ds  == IF neg THEN Tail(t) ELSE t
    IN  /\ ds # <<>>
        /\ \A k \in 1..Len(ds) : ds[k] \in Digit
        /\ ds[1] = Ord["0"] => (Len(ds) = 1 /\ ~neg)

\* C3: on i0<c>...e, where the byte <c> after the leading '0' is not the
\* terminator, the integer decoder ends the process with a fatal error; on
\* i0e it returns an Integer of text "0" and consumed length 3.
C3_LeadingZero ==
    IntCall =>
        LET at == call.arg
        IN  /\ ( /\ FirstE(at) < Len(buf)
                 /\ At(buf, at + 1) = Ord["0"]
                 /\ FirstE(at) > at + 2 )
                => (res.st = "exit" /\ res.code = 1 /\ res.obj = NoObj)
            /\ ( /\ FirstE(at) < Len(buf)
                 /\ FirstE(at) = at + 2
                 /\ At(buf, at + 1) = Ord["0"] )
                => /\ res.st = "ok"
                   /\ res.obj.type = "B_INT"
                   /\ CStr(res.obj.decoded_element) = <<Ord["0"]>>
                   /\ res.obj.lenght = 3

\* i042e has been rejected
C3_Witness ==
    /\ IntCall
    /\ buf = Bytes(<<"i", "0", "4", "2", "e">>)
    /\ res.st = "exit"

\* i0e has been accepted
C3_WitnessZero ==
    /\ IntCall
    /\ buf = Bytes(<<"i", "0", "e">>)
    /\ res.st = "ok"

\* C4: on the leading-zero forms that carry a minus sign (i-0e, i-042e) the
\* integer decoder ends the process with a fatal error and returns no
\* Integer.
C4_MinusZeroRejected ==
    ( /\ IntCall
      /\ FirstE(call.arg) < Len(buf)
      /\ Len(IntText(call.arg)) >= 2
      /\ IntText(call.arg)[1] = Ord["-"]
      /\ IntText(call.arg)[2] = Ord["0"] )
    => (res.st = "exit" /\ res.obj = NoObj)

\* C5: a valid integer i<N>e with no disallowed leading zero, at any index
\* of its buffer, decodes to an Integer of text N and consumed length
\* len(N) + 2, and 'i' + text + 'e', like the encoded form it keeps, is the
\* input span byte for byte.
C5_ValidInteger ==
    ( /\ IntCall
      /\ FirstE(call.arg) < Len(buf)
      /\ ValidIntText(IntText(call.arg)) )
    => LET N    == IntText(call.arg)
           span == SubSeq(buf, call.arg + 1, FirstE(call.arg) + 1)
       IN  /\ res.st = "ok"
           /\ res.obj.type = "B_INT"
           /\ CStr(res.obj.decoded_element) = N
           /\ res.obj.lenght = Len(N) + 2
           /\ <<Ord["i"]>> \o CStr(res.obj.decoded_element) \o <<Ord["e"]>>
                  = span
           /\ CStr(res.obj.encoded_element) = span

\* i-42e has been decoded at index 4 of li4ei-42e
C5_Witness ==
    /\ IntCall
    /\ call.arg = 4
    /\ buf = Bytes(<<"l", "i", "4", "e", "i", "-", "4", "2", "e">>)
    /\ res.st = "ok"
    /\ CStr(res.obj.decoded_element) = Bytes(<<"-", "4", "2">>)

(***************************************************************************)
(* The byte-string decoder.                                                *)
(***************************************************************************)
\* the value of a decimal text
RECURSIVE DecValue(_)
DecValue(t) ==
    IF t = <<>> THEN 0
    ELSE 10 * DecValue(SubSeq(t, 1, Len(t) - 1)) + (t[Len(t)] - Ord["0"])

\* the number of digits buf starts with
LeadDigits ==
    CHOOSE k \in 0..Len(buf) :
        /\ \A j \in 1..k : buf[j] \in Digit
        /\ k < Len(buf) => buf[k + 1] \notin Digit

\* buf starts with <len>:<payload>, len digits and len(payload) = len
IsByteString ==
    /\ LeadDigits >= 1
    /\ LeadDigits < Len(buf)
    /\ buf[LeadDigits + 1] = Ord[":"]
    /\ LeadDigits + 1 + DecValue(SubSeq(buf, 1, LeadDigits)) <= Len(buf)

Declared == DecValue(SubSeq(buf, 1, LeadDigits))

Payload == SubSeq(buf, LeadDigits + 2, LeadDigits + 1 + Declared)

\* the statement of C6 as claimed: every payload, NUL bytes included
C6_AnyPayload ==
    (StrCall /\ call.arg = 0 /\ IsByteString) =>
        /\ res.st = "ok"
        /\ res.obj.type = "B_STR"
        /\ SubSeq(res.obj.decoded_element, 1, Declared) = Payload
        /\ res.obj.lenght = LeadDigits + 1 + Declared

\* C6 (amended): a byte-string <len>:<payload> with len = len(payload) and no
\* NUL byte in the payload, decoded with p_flag = 0, yields a ByteString
\* whose content is the payload and whose consumed length is the number of
\* digits of len, plus 1, plus len; 0: yields the empty payload and 2.
C6_TextPayload ==
    (StrCall /\ call.arg = 0 /\ IsByteString
        /\ \A k \in 1..Len(Payload) : Payload[k] # 0) =>
        /\ res.st = "ok"
        /\ res.obj.type = "B_STR"
        /\ SubSeq(res.obj.decoded_element, 1, Declared) = Payload
        /\ CStr(res.obj.decoded_element) = Payload
        /\ res.obj.lenght = LeadDigits + 1 + Declared
        /\ (buf = Bytes(<<"0", ":">>)) =>
               (CStr(res.obj.decoded_element) = <<>> /\ res.obj.lenght = 2)

\* a string with a two-digit length has been decoded as text
C6_Witness ==
    /\ StrCall
    /\ call.arg = 0
    /\ buf = Bytes(<<"1", "0", ":">>) \o [k \in 1..10 |-> Ord["a"]]
    /\ res.st = "ok"
    /\ res.obj.lenght = 13

\* 0: has been decoded as text
C6_WitnessEmpty ==
    /\ StrCall
    /\ call.arg = 0
    /\ buf = Bytes(<<"0", ":">>)
    /\ res.st = "ok"

(***************************************************************************)
(* The containers.                                                         *)
(***************************************************************************)
TopCall == ListCall \/ DictCall

\* the pair sequences of the dictionaries of a tree
RECURSIVE AllDicts(_)
AllDicts(o) ==
    CASE o.type = "B_LIS" ->
             UNION {AllDicts(o.list[i]) : i \in 1..Len(o.list)}
      [] o.type = "B_DICT" ->
             {o.dict} \cup
                 UNION {AllDicts(o.dict[i].value) : i \in 1..Len(o.dict)}
      [] OTHER -> {}

\* the key of a pair is the text "pieces"
PiecesKey(n) ==
    n.key.type = "B_STR" /\ CStr(n.key.decoded_element) = PIECES

\* the number of digits of b from C index k on
DigitRun(b, k) ==
    CHOOSE n \in 0..(Len(b) - k) :
        /\ \A j \in 0..(n - 1) : At(b, k + j) \in Digit
        /\ k + n < Len(b) => At(b, k + n) \notin Digit

\* bencode's grammar: WfEnd(b, k) is the C index after the well-formed value
\* that starts at index k of b, -1 when there is none; a dictionary's keys
\* are byte-strings
RECURSIVE WfEnd(_, _), WfItems(_, _, _)
WfEnd(b, k) ==
    IF k < 0 \/ k >= Len(b) THEN -1
    ELSE LET c == At(b, k)
         IN  CASE c = Ord["i"] ->
                      LET e == FirstEIn(b, k)
                      IN  IF e < Len(b) /\ ValidIntText(SubSeq(b, k + 2, e))
                          THEN e + 1 ELSE -1
               [] c \in Digit ->
                      LET d == DigitRun(b, k)
                          n == DecValue(SubSeq(b, k + 1, k + d))
                      IN  IF /\ k + d < Len(b)
                             /\ At(b, k + d) = Ord[":"]
                             /\ k + d + 1 + n <= Len(b)
                          THEN k + d + 1 + n ELSE -1
               [] c = Ord["l"] -> WfItems(b, k + 1, FALSE)
               [] c = Ord["d"] -> WfItems(b, k + 1, TRUE)
               [] OTHER -> -1

WfItems(b, k, dict) ==
    IF k < 0 \/ k >= Len(b) THEN -1
    ELSE IF At(b, k) = Ord["e"] THEN k + 1
    ELSE IF dict
    THEN IF At(b, k) \notin Digit THEN -1
         ELSE LET ke == WfEnd(b, k)
                  ve == WfEnd(b, ke)
              IN  WfItems(b, ve, TRUE)
    ELSE WfItems(b, WfEnd(b, k), FALSE)

\* buf is one well-formed bencode document
WfDoc == WfEnd(buf, 0) = Len(buf)

\* the encoded form a decoded value keeps
Encoded(o) ==
    CASE o.type = "B_LIS" -> o.enocded_list
      [] o.type = "B_DICT" -> o.encoded_dict
      [] o.type \in {"B_INT", "B_STR"} -> CStr(o.encoded_element)
      [] OTHER -> <<>>

\* C2: decoding a syntactically valid document, the flag being off, returns
\* a tree whose retained encoded form is the document, byte for byte.
C2_RoundTrip ==
    (TopCall /\ call.p = 0 /\ WfDoc) =>
        (res.st = "ok" /\ Encoded(res.obj) = buf)

\* C7: the byte-string of declared length N that follows the key "pieces"
\* (here: as the first pair of the dictionary decoded) is a B_HEX holding
\* exactly the N bytes of the payload, its recorded length N.
C7_PiecesBlob ==
    ( /\ DictCall
      /\ call.p = 0
      /\ res.st = "ok"
      /\ Len(res.obj.dict) >= 1
      /\ PiecesKey(res.obj.dict[1])
      /\ At(buf, 1 + Len(PIECES) + 2) \in Digit )
    => LET at == 1 + Len(PIECES) + 2
           d  == DigitRun(buf, at)
           N  == DecValue(SubSeq(buf, at + 1, at + d))
           v  == res.obj.dict[1].value
       IN  /\ v.type = "B_HEX"
           /\ v.lenght = N
           /\ v.decoded_pieces = SubSeq(buf, at + d + 2, at + d + 1 + N)

\* C8: in every dictionary returned, a byte-string value under the key
\* "pieces" is a B_HEX and decoding it leaves the flag off: the key of the
\* next pair is a B_STR, the value of the next pair is no B_HEX unless its
\* own key is "pieces", and a dictionary that ends with the blob returns
\* with the flag off.
C8_OneShot ==
    (TopCall /\ res.st = "ok") =>
        /\ \A d \in AllDicts(res.obj) : \A i \in 1..Len(d) :
              PiecesKey(d[i]) =>
                  /\ d[i].value.type # "B_STR"
                  /\ (d[i].value.type = "B_HEX" /\ i < Len(d)) =>
                        /\ d[i + 1].key.type = "B_STR"
                        /\ ~PiecesKey(d[i + 1]) =>
                               d[i + 1].value.type # "B_HEX"
        /\ ( /\ res.obj.type = "B_DICT"
             /\ res.obj.dict # <<>>
             /\ PiecesKey(res.obj.dict[Len(res.obj.dict)])
             /\ res.obj.dict[Len(res.obj.dict)].value.type = "B_HEX" )
            => res.pieces = 0

\* d 6:pieces <blob> 3:foo 3:foo e has been decoded: the blob, then a text
\* key and a text value
C8_Witness ==
    /\ DictCall
    /\ res.st = "ok"
    /\ Len(res.obj.dict) = 2
    /\ PiecesKey(res.obj.dict[1])
    /\ res.obj.dict[1].value.type = "B_HEX"
    /\ res.obj.dict[2].key.type = "B_STR"
    /\ res.obj.dict[2].value.type = "B_STR"

\* C9: every key of every dictionary of a returned tree is a B_STR.
C9_KeysAreStrings ==
    (TopCall /\ call.p = 0 /\ res.st = "ok") =>
        \A d \in AllDicts(res.obj) : \A i \in 1..Len(d) :
            d[i].key.type = "B_STR"

\* the elements of list o, decoded at index base of buf, lie in buf one
\* after the other from base + 1 on, in the list's order, each of the type
\* its lead byte dispatches to and with the bytes it kept, the terminator
\* follows the last, and the list's consumed length is the terminator's
\* index relative to base, plus 1
RECURSIVE InOrder(_, _, _, _)
InOrder(base, o, i, off) ==
    IF i > Len(o.list)
    THEN /\ base + off < Len(buf)
         /\ At(buf, base + off) = Ord["e"]
         /\ o.lenght = off + 1
    ELSE LET e == o.list[i]
         IN  /\ base + off < Len(buf)
             /\ e.type = type_to_decode(At(buf, base + off))
             /\ e.type \in {"B_INT", "B_STR"} =>
                    CStr(e.encoded_element) =
                        CStr(SubSeq(buf, base + off + 1,
                                    base + off + e.lenght))
             /\ e.type = "B_LIS" => InOrder(base + off, e, 1, 1)
             /\ InOrder(base, o, i + 1, off + e.lenght)

\* C10: a decoded list holds its elements in the order met, and its
\* consumed length is the index of its terminating 'e' plus 1.
C10_ListOrder ==
    (ListCall /\ res.st = "ok") => InOrder(0, res.obj, 1, 1)

\* l i1e l 3:foo e e has been decoded
C10_Witness ==
    /\ ListCall
    /\ res.st = "ok"
    /\ Len(res.obj.list) = 2
    /\ res.obj.list[1].type = "B_INT"
    /\ res.obj.list[2].type = "B_LIS"
    /\ Len(res.obj.list[2].list) = 1
    /\ res.obj.lenght = Len(buf)

(***************************************************************************)
(* The dictionary decoder.                                                 *)
(***************************************************************************)
\* the pairs of dictionary o, decoded at index base of buf, lie in buf one
\* after the other from base + 1 on, in the dictionary's order: each key is
\* the byte-string at the cursor, each value lies the key's consumed length
\* further and is of the type its lead byte dispatches to, the next pair
\* lies the value's consumed length further, the terminator follows the
\* last pair, and the dictionary's consumed length is the terminator's index
\* relative to base, plus 1
RECURSIVE PairsInOrder(_, _, _, _)
PairsInOrder(base, o, i, off) ==
    IF i > Len(o.dict)
    THEN /\ base + off < Len(buf)
         /\ At(buf, base + off) = Ord["e"]
         /\ o.lenght = off + 1
    ELSE LET k    == o.dict[i].key
             v    == o.dict[i].value
             voff == off + k.lenght
         IN  /\ base + voff < Len(buf)
             /\ At(buf, base + off) \in Digit
             /\ k.type = "B_STR" =>
                    CStr(k.encoded_element) =
                        CStr(SubSeq(buf, base + off + 1, base + voff))
             /\ v.type # "B_HEX" =>
                    v.type = type_to_decode(At(buf, base + voff))
             /\ v.type = "B_HEX" => At(buf, base + voff) \in Digit
             /\ v.type \in {"B_INT", "B_STR"} =>
                    CStr(v.encoded_element) =
                        CStr(SubSeq(buf, base + voff + 1,
                                    base + voff + v.lenght))
             /\ v.type = "B_LIS" => InOrder(base + voff, v, 1, 1)
             /\ v.type = "B_DICT" => PairsInOrder(base + voff, v, 1, 1)
             /\ PairsInOrder(base, o, i + 1, voff + v.lenght)

\* C11: a decoded dictionary holds its pairs in the order met, unsorted and
\* repeated keys included; the cursor advances per pair by the key's
\* consumed length plus the value's, and the dictionary's consumed length is
\* the index of its terminating 'e' plus 1.
C11_DictOrder ==
    (DictCall /\ call.p = 0 /\ res.st = "ok") =>
        PairsInOrder(0, res.obj, 1, 1)

\* an empty container of the type lead byte ch dispatches to, its consumed
\* length 2
EmptyContainer(o, ch) ==
    /\ o.type = type_to_decode(ch)
    /\ o.type = "B_LIS" => o.list = <<>>
    /\ o.type = "B_DICT" => o.dict = <<>>
    /\ o.lenght = 2

\* C12: le decodes to a list with no elements and de to a dictionary with no
\* pairs, each with consumed length 2, as the whole input and as the first
\* element of a list.
C12_EmptyContainers ==
    /\ (TopCall /\ Len(buf) >= 2 /\ At(buf, 1) = Ord["e"]) =>
           (res.st = "ok" /\ EmptyContainer(res.obj, At(buf, 0)))
    /\ ( /\ ListCall
         /\ res.st = "ok"
         /\ Len(buf) >= 3
         /\ At(buf, 1) \in {Ord["l"], Ord["d"]}
         /\ At(buf, 2) = Ord["e"] ) =>
           (res.obj.list # <<>> /\ EmptyContainer(res.obj.list[1], At(buf, 1)))

\* de has been decoded
C12_Witness ==
    /\ DictCall
    /\ buf = Bytes(<<"d", "e">>)
    /\ res.st = "ok"
    /\ res.obj.dict = <<>>

\* le has been decoded
C12_WitnessList ==
    /\ ListCall
    /\ buf = Bytes(<<"l", "e">>)
    /\ res.st = "ok"
    /\ res.obj.list = <<>>

\* lleli1eee has been decoded: an empty list inside a list
C12_WitnessNested ==
    /\ ListCall
    /\ res.st = "ok"
    /\ Len(res.obj.list) = 2
    /\ res.obj.list[1].type = "B_LIS"
    /\ res.obj.list[1].list = <<>>

\* the document l i1e l 3:foo e e
Doc13 == Bytes(<<"l", "i", "1", "e", "l", "3", ":", "f", "o", "o", "e", "e">>)

\* the tree is [1, ["foo"]], its inner list of consumed length 7
Shape13(o) ==
    /\ o.type = "B_LIS"
    /\ Len(o.list) = 2
    /\ o.list[1].type = "B_INT"
    /\ CStr(o.list[1].decoded_element) = Bytes(<<"1">>)
    /\ o.list[2].type = "B_LIS"
    /\ Len(o.list[2].list) = 1
    /\ o.list[2].list[1].type = "B_STR"
    /\ CStr(o.list[2].list[1].decoded_element) = Bytes(<<"f", "o", "o">>)
    /\ o.list[2].lenght = 7

\* the statement of C13 as claimed: the outer list's consumed length is 10
\* bytes
C13_TenBytes ==
    (ListCall /\ buf = Doc13 /\ call.p = 0) =>
        /\ res.st = "ok"
        /\ Shape13(res.obj)
        /\ res.obj.lenght = 10

\* C13 (amended): decoding li1el3:fooee, the flag being off, yields a tree of shape [1, ["foo"]]
\* whose outer list has consumed length equal to the whole span, 12 bytes,
\* and whose inner list has consumed length 7.
C13_NestedSpan ==
    (ListCall /\ buf = Doc13 /\ call.p = 0) =>
        /\ res.st = "ok"
        /\ Shape13(res.obj)
        /\ res.obj.lenght = 12
        /\ res.obj.lenght = Len(buf)

\* li1el3:fooee has been decoded
C13_Witness ==
    /\ ListCall
    /\ buf = Doc13
    /\ call.p = 0
    /\ res.st = "ok"
    /\ res.obj.lenght = 12

(***************************************************************************)
(* Errors.                                                                 *)
(***************************************************************************)
\* C14: decoding a dictionary that has an integer, a list or a dictionary
\* in key position ends in the fatal-error exit; no dictionary is returned.
C14_KeyTypeError ==
    (DictCall /\ buf \in KeyDocs) => res.st = "exit"

\* a dictionary with an integer in key position has been returned
C14_Returned ==
    /\ DictCall
    /\ buf \in KeyDocs
    /\ At(buf, 1) = Ord["i"]
    /\ res.st = "ok"
    /\ ~res.ubk
    /\ res.hi < Len(buf)

\* NullEnd(b, k): the C index after the well-formed value that starts at
\* index k of b; -1 when, reading from k on, the first thing that is not
\* well-formed is a list element or a dictionary value whose lead byte is
\* none of 'i', 'l', 'd' and a digit (b's terminating NUL included); -2 when
\* it is anything else
RECURSIVE NullEnd(_, _), NullItems(_, _, _)
NullEnd(b, k) ==
    IF k < 0 THEN k
    ELSE IF k >= Len(b) THEN -1
    ELSE LET c == At(b, k)
         IN  CASE c = Ord["i"] \/ c \in Digit ->
                      IF WfEnd(b, k) < 0 THEN -2 ELSE WfEnd(b, k)
               [] c = Ord["l"] -> NullItems(b, k + 1, FALSE)
               [] c = Ord["d"] -> NullItems(b, k + 1, TRUE)
               [] OTHER -> -1

NullItems(b, k, dict) ==
    IF k < 0 THEN k
    ELSE IF k >= Len(b) THEN (IF dict THEN -2 ELSE -1)
    ELSE IF At(b, k) = Ord["e"] THEN k + 1
    ELSE IF dict
    THEN IF At(b, k) \notin Digit \/ WfEnd(b, k) < 0 THEN -2
         ELSE NullItems(b, NullEnd(b, WfEnd(b, k)), TRUE)
    ELSE NullItems(b, NullEnd(b, k), FALSE)

\* C15: when a list element or a dictionary value of the input starts
\* with a byte the dispatcher classifies as B_NULL, at any depth, the decode
\* does not return: no list and no dictionary comes back to the caller.
C15_Aborts ==
    (TopCall /\ NullEnd(buf, 0) = -1) =>
        /\ res.st # "ok"
        /\ res.obj = NoObj

\* the same for the runs that read no B_HEX key's length: they end in
\* exit(-1)
C15_InvalidLead ==
    (TopCall /\ NullEnd(buf, 0) = -1 /\ ~res.ubk) =>
        /\ res.st = "exit"
        /\ res.code = -1
        /\ res.obj = NoObj

\* d3:fooe: the value of foo starts with 'e'
C15_Witness ==
    /\ DictCall
    /\ buf = DocTokens.d \o DocTokens.foo \o DocTokens.e
    /\ res.st = "exit"

\* ld3:foo: one level down, the value of foo starts with the NUL
C15_WitnessNested ==
    /\ ListCall
    /\ buf = DocTokens.l \o DocTokens.d \o DocTokens.foo
    /\ NullEnd(buf, 0) = -1
    /\ res.st = "exit"

\* lll: two levels down, the element starts with the NUL
C15_WitnessDeep ==
    /\ ListCall
    /\ buf = DocTokens.l \o DocTokens.l \o DocTokens.l
    /\ NullEnd(buf, 0) = -1
    /\ res.st = "exit"

\* C16: decoding an integer whose terminating 'e' is missing from the
\* input ends in the fatal-error exit: no value is returned and no byte
\* after the input's terminating NUL is read.
C16_Unterminated ==
    (IntCall /\ FirstE(call.arg) = Len(buf)) =>
        /\ res.st = "exit"
        /\ res.obj = NoObj
        /\ res.hi <= Len(buf)

\* an Integer has been returned for i42 with no terminator
C16_Returned ==
    /\ IntCall
    /\ buf = Bytes(<<"i", "4", "2">>)
    /\ res.st = "ok"
    /\ res.hi > Len(buf)

\* the same for a dictionary: d and a list that ends at the NUL
C16_UnterminatedDict ==
    (DictCall /\ buf = DocTokens.d) =>
        /\ res.st = "exit"
        /\ res.hi <= Len(buf)

(***************************************************************************)
(* Lookup by key.                                                          *)
(***************************************************************************)
LookupCall == call.op \in {"get_info_dict", "find_by_key"}

\* the texts of the keys of the well-formed dictionary b, in b's order: k is
\* the index of a key or of the terminator
RECURSIVE DocKeyTexts(_, _)
DocKeyTexts(b, k) ==
    IF At(b, k) = Ord["e"] THEN <<>>
    ELSE <<SubSeq(b, k + DigitRun(b, k) + 2, WfEnd(b, k))>>
             \o DocKeyTexts(b, WfEnd(b, WfEnd(b, k)))

\* the places of the searched key among the keys of the document
DocHits ==
    {i \in 1..Len(DocKeyTexts(buf, 1)) :
         strcmp(DocKeyTexts(buf, 1)[i] \o <<0>>, call.key) = 0}

\* the lookup returned the value of pair i of the dictionary
Found(i) ==
    /\ res.st = "ok"
    /\ i <= Len(call.dict.dict)
    /\ res.ret = call.dict.dict[i].value

\* C17: a lookup in the dictionary decoded from a well-formed document
\* yields NotFound, without ending the process, when no key of the document
\* has the searched text, and otherwise the stored value of the first pair
\* whose key has it.
C17_Lookup ==
    (LookupCall /\ WfDoc) =>
        IF DocHits = {} THEN res = NotFound
        ELSE Found(CHOOSE i \in DocHits : \A j \in DocHits : i <= j)

\* the same for the dictionaries whose keys are all B_STR
C17_TextKeys ==
    (LookupCall /\ WfDoc
        /\ \A i \in 1..Len(call.dict.dict) :
               call.dict.dict[i].key.type = "B_STR") =>
        IF DocHits = {} THEN res = NotFound
        ELSE Found(CHOOSE i \in DocHits : \A j \in DocHits : i <= j)

\* foo has been looked up in d3:fooi1e3:foo3:fooe: the first of two
C17_Witness ==
    /\ call.op = "get_info_dict"
    /\ call.key = Bytes(<<"f", "o", "o">>) \o <<0>>
    /\ buf = DocTokens.d \o DocTokens.foo \o DocTokens.int
                 \o DocTokens.foo \o DocTokens.foo \o DocTokens.e
    /\ res.ret.type = "B_INT"

\* fo has been looked up and not found
C17_WitnessAbsent ==
    /\ call.op = "find_by_key"
    /\ call.key = Bytes(<<"f", "o">>) \o <<0>>
    /\ Len(call.dict.dict) = 2
    /\ res = NotFound

\* C18: get_info_dict returns a non-NULL pointer only if the key exists and
\* its value is a dictionary.
C18_OnlyDicts ==
    (call.op = "get_info_dict" /\ res.ret # NULL) =>
        /\ DocHits # {}
        /\ res.ret.type = "B_DICT"

\* the same, the dictionary's keys being all B_STR: a non-NULL result is
\* the value of a key that exists, of whatever type
C18_AnyType ==
    (call.op = "get_info_dict" /\ WfDoc /\ res.ret # NULL
        /\ \A i \in 1..Len(call.dict.dict) :
               call.dict.dict[i].key.type = "B_STR") =>
        DocHits # {}

\* get_info_dict has returned a dictionary
C18_ReturnedDict ==
    /\ call.op = "get_info_dict"
    /\ res.ret.type = "B_DICT"

(***************************************************************************)
(* Destruction.                                                            *)
(***************************************************************************)
FreeCall == call.op = "free_obj"

\* C19: after free_obj on the root a decode returned, every allocation the
\* decode made has been released.
C19_TotalFree ==
    FreeCall => res.freed = call.nalloc

\* the same for the trees that hold no dictionary
C19_ListsOnly ==
    (FreeCall /\ AllDicts(call.root) = {}) => res.freed = call.nalloc

\* the dictionaries of the tree leave allocations behind: the b_obj
\* allocated for the key before each one's loop
C19_OnePerDict ==
    FreeCall =>
        call.nalloc - res.freed >= Cardinality(AllDicts(call.root))

\* li1el3:fooee has been decoded and destroyed
C19_WitnessList ==
    /\ FreeCall
    /\ buf = Doc13
    /\ res.freed = call.nalloc

\* de has been decoded and destroyed
C19_Leak ==
    /\ FreeCall
    /\ buf = DocTokens.d \o DocTokens.e
    /\ res.freed = 4
    /\ call.nalloc = 5

(***************************************************************************)
(* One decode after another.                                               *)
(***************************************************************************)
\* C20: the flag is off at the start of every top-level decode, whatever
\* was decoded before it.
C20_FlagOffAtStart ==
    TopCall => call.p = 0

\* the same document decoded with the flag left on by an earlier decode
\* ends otherwise than in a fresh process: li1el3:fooee is not returned
C20_SameTree ==
    (ListCall /\ buf = Doc13) => (res.st = "ok" /\ Shape13(res.obj))

\* a decode has returned and left the flag on
C20_LeftOn ==
    /\ TopCall
    /\ call.p = 0
    /\ res.st = "ok"
    /\ ~res.ubk
    /\ pieces = 1

(***************************************************************************)
(* The peer id.                                                            *)
(***************************************************************************)
PeerIdCall == call.op = "generate_peer_id"

\* the seed as a C string
SeedText == CStr(buf \o <<0>>)

PiecesFirst ==
    /\ Len(buf) > 1 + Len(DocTokens.pieces)
    /\ SubSeq(buf, 1, 1 + Len(DocTokens.pieces))
           = DocTokens.l \o DocTokens.pieces

\* C22: the text "pieces" decoded as a list element leaves the flag off:
\* the list l6:piecese returns with the flag off, and a byte-string that
\* follows the element is decoded as a B_STR.
C22_KeyPathOnly ==
    (ListCall /\ call.p = 0 /\ WfDoc /\ PiecesFirst) =>
        /\ res.st = "ok"
        /\ Len(res.obj.list) = 1 => res.pieces = 0
        /\ ( /\ Len(res.obj.list) >= 2
             /\ At(buf, 1 + Len(DocTokens.pieces)) \in Digit )
            => res.obj.list[2].type = "B_STR"

\* l6:piecese has returned with the flag on
C22_FlagOn ==
    /\ ListCall
    /\ call.p = 0
    /\ buf = DocTokens.l \o DocTokens.pieces \o DocTokens.e
    /\ res.st = "ok"
    /\ res.pieces = 1

\* C23: every Integer returned (here: for an input that has its terminator)
\* has a text that is an optional minus sign and at least one digit, with no
\* leading zero unless it is "0".
C23_IntegerInvariant ==
    (IntCall /\ FirstE(call.arg) < Len(buf) /\ res.st = "ok") =>
        /\ res.obj.type = "B_INT"
        /\ ValidIntText(CStr(res.obj.decoded_element))

\* ie has yielded an Integer with no digit
C23_Empty ==
    /\ IntCall
    /\ buf = Bytes(<<"i", "e">>)
    /\ res.st = "ok"
    /\ res.obj.type = "B_INT"
    /\ CStr(res.obj.decoded_element) = <<>>

(***************************************************************************)
(* The order of destruction.                                               *)
(***************************************************************************)
\* at a is strictly below at b in the tree
Below(a, b) == Len(a) > Len(b) /\ SubSeq(a, 1, Len(b)) = b

\* the parts of a container that are its own: its record, its encoded text
\* and its wrappers
OwnParts == {"encoded", "record", "object", "ptr"}

\* C24: free_obj releases no allocation twice, and everything below a list
\* or dictionary (elements, keys, values and their descendants) before the
\* container's own record and wrappers.
C24_PostOrder ==
    FreeCall =>
        /\ Len(res.calls) = res.freed
        /\ \A i, j \in 1..Len(res.calls) :
               i # j => res.calls[i] # res.calls[j]
        /\ \A i, j \in 1..Len(res.calls) :
               ( /\ Below(res.calls[i].at, res.calls[j].at)
                 /\ res.calls[j].part \in OwnParts ) => i < j

\* a tree with a value two levels below the root has been destroyed
C24_Witness ==
    /\ FreeCall
    /\ \E i \in 1..Len(res.calls) : Len(res.calls[i].at) = 2
    /\ \E i \in 1..Len(res.calls) :
           res.calls[i].part = "node" /\ res.calls[i].n = 2

\* C25: free_obj on a value tagged B_NULL writes its error line, calls
\* free on nothing, leaves the value as it was and returns.
C25_FreeInvalid ==
    (FreeCall /\ call.root.type = "B_NULL") =>
        /\ res.st = "ok"
        /\ res.report
        /\ res.calls = <<>>
        /\ res.freed = 0
        /\ res.left = call.root

\* free_obj has been called on a B_NULL value whose pointer holds a record
C25_Witness ==
    /\ FreeCall
    /\ call.root.type = "B_NULL"
    /\ call.root.object # NULL
    /\ res.st = "ok"

\* the tags of the nodes of a tree: the root, every element, key and value
RECURSIVE NodeTypes(_)
NodeTypes(o) ==
    {o.type} \cup
    CASE o.type = "B_LIS" ->
             UNION {NodeTypes(o.list[i]) : i \in 1..Len(o.list)}
      [] o.type = "B_DICT" ->
             UNION {NodeTypes(o.dict[i].key) \cup NodeTypes(o.dict[i].value) :
                        i \in 1..Len(o.dict)}
      [] OTHER -> {}

\* C26: no node of a returned tree, at any depth, is tagged B_NULL: every
\* one is a B_INT, B_STR, B_HEX, B_LIS or B_DICT.
C26_NoInvalidNode ==
    (TopCall /\ res.st = "ok") =>
        /\ "B_NULL" \notin NodeTypes(res.obj)
        /\ NodeTypes(res.obj)
               \subseteq {"B_INT", "B_STR", "B_HEX", "B_LIS", "B_DICT"}

\* a dictionary holding a list that holds an integer has been returned
C26_Witness ==
    /\ DictCall
    /\ res.st = "ok"
    /\ NodeTypes(res.obj) = {"B_DICT", "B_STR", "B_LIS", "B_INT"}

(***************************************************************************)
(* The reads of a decode.                                                  *)
(***************************************************************************)
\* C27: while a well-formed document is decoded, the flag being off at the
\* start, no byte after the buffer's terminating NUL is read (the NUL is at
\* C index Len(buf)).
C27_ReadsInside ==
    (TopCall /\ call.p = 0 /\ WfDoc) => res.hi <= Len(buf)

\* d6:pieces10:aaaaaaaaaae has been decoded and returned, and the copy of
\* the blob has read the byte after the terminator
C27_ReadPast ==
    /\ DictCall
    /\ call.p = 0
    /\ buf = DocTokens.d \o DocTokens.pieces
                 \o Bytes(<<"1", "0", ":">>) \o [k \in 1..10 |-> Ord["a"]]
                 \o DocTokens.e
    /\ res.st = "ok"
    /\ res.hi = Len(buf) + 1

(***************************************************************************)
(* The cursor of the container loops.                                      *)
(***************************************************************************)
\* the consumed lengths recorded in the nodes of a tree: the root, every
\* element, key and value
RECURSIVE NodeLenghts(_)
NodeLenghts(o) ==
    {o.lenght} \cup
    CASE o.type = "B_LIS" ->
             UNION {NodeLenghts(o.list[i]) : i \in 1..Len(o.list)}
      [] o.type = "B_DICT" ->
             UNION {NodeLenghts(o.dict[i].key) \cup
                        NodeLenghts(o.dict[i].value) : i \in 1..Len(o.dict)}
      [] OTHER -> {}

\* C28: on a well-formed document, the flag being off at the start, the
\* loops of the list and dictionary decoders only move the cursor forward:
\* what is added for a key is at least 2 also when the key is a blob, whose
\* length the loop reads through int_str, and every node of a returned tree
\* has a consumed length of at least 2.
C28_CursorAdvances ==
    (TopCall /\ call.p = 0 /\ WfDoc) =>
        /\ res.ubk => call.o.g >= 2
        /\ res.st = "ok" => \A n \in NodeLenghts(res.obj) : n >= 2

\* when no blob key's length has been read, every node of the tree returned
\* for a well-formed document has a consumed length of at least 2
C28_TextKeys ==
    (TopCall /\ call.p = 0 /\ WfDoc /\ ~res.ubk /\ res.st = "ok") =>
        \A n \in NodeLenghts(res.obj) : n >= 2

\* a well-formed document has been decoded, and after a blob key the
\* dictionary loop has moved its cursor one byte back
C28_Backwards ==
    /\ DictCall
    /\ call.p = 0
    /\ WfDoc
    /\ buf = DocTokens.d \o DocTokens.pieces \o DocTokens.int
                 \o DocTokens.foo \o DocTokens.int \o DocTokens.e
    /\ res.ubk
    /\ call.o.g = -1
    /\ res.st = "exit"

\* the sum of the consumed lengths recorded in a sequence of nodes
RECURSIVE SumLenghts(_)
SumLenghts(nodes) ==
    IF nodes = <<>> THEN 0
    ELSE Head(nodes).lenght + SumLenghts(Tail(nodes))

\* the keys and values of a dictionary, pair after pair
RECURSIVE KeysAndValues(_)
KeysAndValues(dict) ==
    IF dict = <<>> THEN <<>>
    ELSE <<Head(dict).key, Head(dict).value>> \o KeysAndValues(Tail(dict))

\* every list and dictionary of a tree records 2 plus the sum of the
\* consumed lengths recorded in its elements, or in its keys and values
RECURSIVE SpansAdd(_)
SpansAdd(o) ==
    CASE o.type = "B_LIS" ->
             /\ o.lenght = 2 + SumLenghts(o.list)
             /\ \A i \in 1..Len(o.list) : SpansAdd(o.list[i])
      [] o.type = "B_DICT" ->
             /\ o.lenght = 2 + SumLenghts(KeysAndValues(o.dict))
             /\ \A i \in 1..Len(o.dict) : SpansAdd(o.dict[i].value)
      [] OTHER -> TRUE

\* C29: in every returned tree the consumed length of each list is 2 plus
\* the sum of its elements' consumed lengths, and that of each dictionary
\* is 2 plus the sum of the consumed lengths of its keys and values, a
\* blob counting for its recorded length.
C29_SpansAdd ==
    (TopCall /\ res.st = "ok") => SpansAdd(res.obj)

\* the same when no blob key's length has been read
C29_TextKeys ==
    (TopCall /\ res.st = "ok" /\ ~res.ubk) => SpansAdd(res.obj)

\* a tree with a blob key has been returned for a well-formed document,
\* whose dictionary records another length than 2 plus the lengths
\* recorded in its keys and values
C29_Off ==
    /\ TopCall
    /\ call.p = 0
    /\ WfDoc
    /\ res.st = "ok"
    /\ res.ubk
    /\ ~SpansAdd(res.obj)

(***************************************************************************)
(* Blobs in lists.                                                         *)
(***************************************************************************)
\* the element sequences of the lists of a tree
RECURSIVE AllLists(_)
AllLists(o) ==
    CASE o.type = "B_LIS" ->
             {o.list} \cup
                 UNION {AllLists(o.list[i]) : i \in 1..Len(o.list)}
      [] o.type = "B_DICT" ->
             UNION {AllLists(o.dict[i].value) : i \in 1..Len(o.dict)}
      [] OTHER -> {}

C30_WitnessUnderKey ==
    /\ DictCall
    /\ call.p = 0
    /\ buf = DocTokens.d \o DocTokens.pieces \o DocTokens.l \o DocTokens.bin
                 \o DocTokens.e \o DocTokens.e
    /\ res.st = "exit"

====
